---------------------------- MODULE Spec2Model ----------------------------
(***************************************************************************)
(* A model of the parameter-selection core of ESPEI (src/paramselect.py):  *)
(* symmetry canonicalisation of sublattice configurations, the dataset     *)
(* selector _get_data, the stepwise AIC selector _fit_parameters, the      *)
(* formation-energy fitter fit_formation_energy and the phase assembler    *)
(* phase_fit.                                                              *)
(*                                                                         *)
(* Representation of Python values                                         *)
(*   a species name (str)   a sequence of characters, <<"C","O">> is 'CO'  *)
(*   an occupant            [t |-> "str",   v |-> <<name>>]        'CO'    *)
(*                          [t |-> "tuple", v |-> <<n1, n2>>]   ('C','O')  *)
(*                          [t |-> "list",  v |-> <<n1, n2>>]   ['C','O']  *)
(*     so that equality of the records is Python's ==: a str never equals  *)
(*     a tuple, a tuple never equals a list.                               *)
(*   a configuration        a sequence of occupants.  canonicalize always  *)
(*     returns tuple(...), and every comparison in the code is between     *)
(*     two results of canonicalize, so the outer container is not tagged.  *)
(*   a symmetry             [none |-> TRUE,  sets |-> <<>>]   for None     *)
(*                          [none |-> FALSE, sets |-> <<<<0,1>>>>] for     *)
(*     [[0, 1]]; the indices are the source's 0-based positions.           *)
(***************************************************************************)
EXTENDS Integers, Sequences, FiniteSets, TLC

VARIABLES
    \* ---- canonicalize -------------------------------------------------
    configuration,          \* the configuration handed to canonicalize
    equivalent_sublattices, \* the symmetry handed to canonicalize
    canonicalized,          \* result of the first call
    canonicalized2,         \* result of the second call
    cpc,                    \* position of the canonicalize scenario
    \* ---- dataset store and _get_data ------------------------------------
    datasets,               \* the dataset store: a sequence of records
    query,                  \* the arguments of the last _get_data call
    searched,               \* positions in the store of the records it found
    desired_data,           \* the list the last _get_data call returned
    dpc,                    \* position of the dataset scenario
    \* ---- _fit_parameters -----------------------------------------------
    first_column,           \* feature_matrix[:, 0]
    data_quantities,        \* the response vector
    feature_count,          \* len(feature_tuple) = feature_matrix.shape[-1]
    num_params,             \* the loop variable of line 212
    rss_values,             \* the rss of each candidate model so far
    model_scores,           \* model_scores
    results,                \* results, a feature_count x feature_count matrix
    parameters,             \* the coefficients returned, one per feature
    selected,               \* np.argmin(model_scores) + 1 once returned
    apc,                    \* position of the _fit_parameters scenario
    \* ---- fit_formation_energy ------------------------------------------
    ffe_args,               \* configuration, symmetry and endmembers of the call
    features,               \* features: property -> list of features
    ffe_parameters,         \* parameters: feature -> coefficient
    ffe_events,             \* the dataset queries and regressions so far
    stage,                  \* which of the three properties comes next
    all_samples,            \* all_samples of the last _get_samples call
    response,               \* the flattened response vector of the last stage
    fpc,                    \* position of the fit_formation_energy scenario
    \* ---- phase_fit -----------------------------------------------------
    pf_args,                \* symmetry, subl_model and site_ratios of the call
    endmembers,             \* the sorted list of line 566
    em_dict,                \* em_dict: endmember -> expression
    bin_interactions,       \* the sorted list of lines 604-605
    pf_index,               \* position of the running loop in its list
    pf_fitted,              \* the map the last fit_formation_energy returned
    pf_parameters,          \* parameters: that map, less the keys popped
    degree_polys,           \* degree_polys of the last interaction
    ppc,                    \* position of the phase_fit scenario
    \* ---- _generate_symmetric_group -------------------------------------
    sg_configuration,       \* the configuration handed to the generator
    sg_symmetry,            \* the symmetry handed to the generator
    sg_group,               \* what the call returned, or that it raised
    sg_member,              \* the member the generator is applied to next
    sg_member_group,        \* what the call on the member returned
    gpc,                    \* position of the generator scenario
    \* ---- setup_context --------------------------------------------------
    ctx,                    \* the arguments and the database setup_context works on
    xpc,                    \* position of the setup_context scenario
    \* ---- the database --------------------------------------------------
    caller_dbf,             \* the database object the caller holds
    dbf                     \* the parameters of the database phase_fit works on

canonVars == <<configuration, equivalent_sublattices, canonicalized,
               canonicalized2, cpc>>
dataVars  == <<datasets, query, searched, desired_data, dpc>>

aicVars   == <<first_column, data_quantities, feature_count, num_params,
               rss_values, model_scores, results, parameters, selected, apc>>

ffeVars   == <<ffe_args, features, ffe_parameters, ffe_events, stage,
               all_samples, response, fpc>>

pfVars    == <<pf_args, endmembers, em_dict, bin_interactions, pf_index,
               pf_fitted, pf_parameters, degree_polys, ppc>>

sgVars    == <<sg_configuration, sg_symmetry, sg_group, sg_member,
               sg_member_group, gpc>>

ctxVars   == <<ctx, xpc>>

vars == <<canonVars, dataVars, aicVars, ffeVars, pfVars, sgVars, ctxVars,
          caller_dbf, dbf>>

-----------------------------------------------------------------------------
(* Bounds *)

MaxSublattices == 3

-----------------------------------------------------------------------------
(* Python values *)

\* ---- helpers on sequences and sets
SeqsOfLen(S, n) == [1..n -> S]

Range(s) == {s[i] : i \in 1..Len(s)}

Reverse(s) == [i \in 1..Len(s) |-> s[Len(s) + 1 - i]]

\* the ascending listing of a finite set of integers
RECURSIVE Ascending(_)
Ascending(S) ==
    IF S = {} THEN <<>>
    ELSE LET m == CHOOSE x \in S : \A y \in S : x <= y
         IN <<m>> \o Ascending(S \ {m})

\* ord() of the characters that occur in the species names of the model
Ord == [ch \in {"A", "B", "C", "D", "O", "V"} |->
          CASE ch = "A" -> 65 [] ch = "B" -> 66 [] ch = "C" -> 67
            [] ch = "D" -> 68 [] ch = "O" -> 79 [] ch = "V" -> 86]

Str(name)     == [t |-> "str",   v |-> <<name>>]
Tuple(n1, n2) == [t |-> "tuple", v |-> <<n1, n2>>]
List(n1, n2)  == [t |-> "list",  v |-> <<n1, n2>>]

\* species names
sA  == <<"A">>
sB  == <<"B">>
sC  == <<"C">>
sD  == <<"D">>
sO  == <<"O">>
sCO == <<"C", "O">>
sVA == <<"V", "A">>

None       == [none |-> TRUE,  sets |-> <<>>]
Sym(sets)  == [none |-> FALSE, sets |-> sets]

\* str < str : lexicographic on the characters
RECURSIVE StrLess(_, _)
StrLess(a, b) ==
    IF b = <<>> THEN FALSE
    ELSE IF a = <<>> THEN TRUE
    ELSE IF Ord[Head(a)] < Ord[Head(b)] THEN TRUE
    ELSE IF Ord[Head(b)] < Ord[Head(a)] THEN FALSE
    ELSE StrLess(Tail(a), Tail(b))

\* list-of-1-tuples < list-of-1-tuples : lexicographic, (s,) < (t,) iff s < t
RECURSIVE KeyLess(_, _)
KeyLess(k1, k2) ==
    IF k2 = <<>> THEN FALSE
    ELSE IF k1 = <<>> THEN TRUE
    ELSE IF StrLess(Head(k1), Head(k2)) THEN TRUE
    ELSE IF StrLess(Head(k2), Head(k1)) THEN FALSE
    ELSE KeyLess(Tail(k1), Tail(k2))

-----------------------------------------------------------------------------
(* canonical_sort_key, canonicalize *)

\* canonical_sort_key(x) iterates over x.  Iterating over a str yields its
\* characters, each wrapped as (ch,); iterating over a tuple or list yields
\* its species names, each wrapped as (name,).
canonical_sort_key(x) ==
    IF x.t = "str"
    THEN [i \in 1..Len(x.v[1]) |-> <<x.v[1][i]>>]
    ELSE x.v

\* an unstable sort: an element moves in front of the elements of equal key
RECURSIVE InsertByKeyUnstable(_, _)
InsertByKeyUnstable(sorted, x) ==
    IF sorted = <<>> THEN <<x>>
    ELSE LET last == sorted[Len(sorted)]
         IN IF ~KeyLess(canonical_sort_key(last), canonical_sort_key(x))
            THEN Append(InsertByKeyUnstable(SubSeq(sorted, 1, Len(sorted) - 1), x), last)
            ELSE Append(sorted, x)

\* sorted(seq, key=canonical_sort_key): a stable sort that only uses <
RECURSIVE InsertByKey(_, _)
InsertByKey(sorted, x) ==
    IF sorted = <<>> THEN <<x>>
    ELSE LET last == sorted[Len(sorted)]
         IN IF KeyLess(canonical_sort_key(x), canonical_sort_key(last))
            THEN Append(InsertByKey(SubSeq(sorted, 1, Len(sorted) - 1), x), last)
            ELSE Append(sorted, x)

RECURSIVE SortedByKey(_)
SortedByKey(s) ==
    IF s = <<>> THEN <<>>
    ELSE InsertByKey(SortedByKey(SubSeq(s, 1, Len(s) - 1)), s[Len(s)])

\* sorted(subl) for a list of ints
RECURSIVE InsertInt(_, _)
InsertInt(sorted, x) ==
    IF sorted = <<>> THEN <<x>>
    ELSE LET last == sorted[Len(sorted)]
         IN IF x < last
            THEN Append(InsertInt(SubSeq(sorted, 1, Len(sorted) - 1), x), last)
            ELSE Append(sorted, x)

RECURSIVE SortedInts(_)
SortedInts(s) ==
    IF s = <<>> THEN <<>>
    ELSE InsertInt(SortedInts(SubSeq(s, 1, Len(s) - 1)), s[Len(s)])

\* lines 129-132: a list occupant is stored as a tuple, others unchanged
TupleIfList(x) == IF x.t = "list" THEN [t |-> "tuple", v |-> x.v] ELSE x

\* One round of the loop of line 126: the occupants at sorted(subl) are read
\* from the ORIGINAL configuration, sorted, and written to canonicalized.
CanonicalizeSubl(conf, canon, subl) ==
    LET idxs     == SortedInts(subl)
        subgroup == SortedByKey([k \in 1..Len(idxs) |-> conf[idxs[k] + 1]])
        Hits(p)  == {k \in 1..Len(idxs) : idxs[k] + 1 = p}
        Last(S)  == CHOOSE k \in S : \A j \in S : j <= k
    IN [p \in 1..Len(canon) |->
          IF Hits(p) = {} THEN canon[p]
          ELSE TupleIfList(subgroup[Last(Hits(p))])]

RECURSIVE CanonicalizeLoop(_, _, _, _)
CanonicalizeLoop(conf, canon, sets, i) ==
    IF i > Len(sets) THEN canon
    ELSE CanonicalizeLoop(conf, CanonicalizeSubl(conf, canon, sets[i]), sets, i + 1)

canonicalize(conf, symmetry) ==
    IF symmetry.none THEN conf
    ELSE CanonicalizeLoop(conf, conf, symmetry.sets, 1)


-----------------------------------------------------------------------------
(* The dataset store and _get_data                                          *)
(*                                                                          *)
(* A dataset record is                                                      *)
(*   [output, components, phases,                                           *)
(*    solver |-> [mode, sublattice_configurations, has_occupancies,         *)
(*                sublattice_occupancies],                                  *)
(*    conditions |-> [T], values]                                           *)
(* Temperatures are in hundredths of a kelvin (29815 is 298.15 K) and       *)
(* conditions.T is the array np.atleast_1d makes of it.  values[t][c] is    *)
(* the value at temperature t of configuration instance c (the pressure     *)
(* axis has length one and is left out).                                    *)

\* 298.15 K, line 182
TMin == 29815

\* _list_to_tuple: every list inside a configuration becomes a tuple
ConfigToTuple(conf) == [p \in 1..Len(conf) |-> TupleIfList(conf[p])]
ListToTuple(confs)  == [i \in 1..Len(confs) |-> ConfigToTuple(confs[i])]

\* _symmetry_filter(x, config, symmetry), x the record's solver block
SymmetryFilter(x, config, symmetry) ==
    IF x.mode = "manual"
    THEN IF Len(config) # Len(x.sublattice_configurations[1])
         THEN FALSE
         ELSE \E i \in 1..Len(x.sublattice_configurations) :
                 canonicalize(config, symmetry)
                   = canonicalize(x.sublattice_configurations[i], symmetry)
    ELSE FALSE

\* datasets.search(...), lines 151-154: the positions of the records found
Search(store, comps, phase_name, config, symmetry, prop) ==
    {i \in 1..Len(store) :
        /\ store[i].output = prop
        /\ store[i].components = comps
        /\ SymmetryFilter(store[i].solver, config, symmetry)
        /\ store[i].phases = <<phase_name>>}

\* the elements of s at the positions where mask is TRUE, in order
RECURSIVE Compress(_, _, _)
Compress(s, mask, i) ==
    IF i > Len(s) THEN <<>>
    ELSE (IF mask[i] THEN <<s[i]>> ELSE <<>>) \o Compress(s, mask, i + 1)

\* lines 169-171: the positions of the matching configuration instances
MatchingConfigs(data, config, symmetry) ==
    LET confs == data.solver.sublattice_configurations
        mask  == [i \in 1..Len(confs) |->
                    canonicalize(confs[i], symmetry) = canonicalize(config, symmetry)]
    IN Compress([i \in 1..Len(confs) |-> i], mask, 1)

\* a[..., idx] : the trailing axis of values indexed by a list of positions
TakeLastAxis(values, idx) ==
    [t \in 1..Len(values) |-> [k \in 1..Len(idx) |-> values[t][idx[k]]]]

\* lines 173-180 with the trailing axis of values left whole
RewriteConfigsKeepValues(data, config, symmetry) ==
    LET m == MatchingConfigs(data, config, symmetry)
    IN [data EXCEPT
          !.solver.sublattice_configurations =
              ListToTuple([k \in 1..Len(m) |-> data.solver.sublattice_configurations[m[k]]]),
          !.solver.sublattice_occupancies =
              IF data.solver.has_occupancies
              THEN [k \in 1..Len(m) |-> data.solver.sublattice_occupancies[m[k]]]
              ELSE data.solver.sublattice_occupancies]

\* lines 168-180: values, configurations and occupancies are rewritten to the
\* matching instances; a record without occupancies takes the KeyError branch
RewriteConfigs(data, config, symmetry) ==
    LET m == MatchingConfigs(data, config, symmetry)
    IN [data EXCEPT
          !.values = TakeLastAxis(data.values, m),
          !.solver.sublattice_configurations =
              ListToTuple([k \in 1..Len(m) |-> data.solver.sublattice_configurations[m[k]]]),
          !.solver.sublattice_occupancies =
              IF data.solver.has_occupancies
              THEN [k \in 1..Len(m) |-> data.solver.sublattice_occupancies[m[k]]]
              ELSE data.solver.sublattice_occupancies]

\* a temperature filter that drops 298.15 K itself
TempFilterStrict(T) == [t \in 1..Len(T) |-> T[t] > TMin]

\* line 182: temp_filter
TempFilter(T) == [t \in 1..Len(T) |-> T[t] >= TMin]

\* lines 181-185: temperatures and the temperature axis of values
RewriteTemperatures(data) ==
    LET temp_filter == TempFilter(data.conditions.T)
    IN [data EXCEPT
          !.conditions.T = Compress(data.conditions.T, temp_filter, 1),
          !.values = Compress(data.values, temp_filter, 1)]

\* the body of the loop of line 167 for one record
FilterRecord(data, config, symmetry) ==
    RewriteTemperatures(RewriteConfigs(data, config, symmetry))

\* without line 157 the nested members of the found records are shared with
\* the store and the rewrites of lines 174-183 land in it
StoreSharedWithResult(store, found, rewritten) ==
    [i \in 1..Len(store) |->
        IF \E k \in 1..Len(found) : found[k] = i
        THEN LET k == CHOOSE k \in 1..Len(found) : found[k] = i
             IN [store[i] EXCEPT !.solver = rewritten[k].solver,
                                 !.conditions = rewritten[k].conditions]
        ELSE store[i]]

\* line 157: desired_data is a deep copy, so the rewrites of lines 167-185 do
\* not reach the store
StoreAfterGetData(store, found, rewritten) == store

\* _get_data: the list of rewritten copies of the records found
GetData(store, comps, phase_name, config, symmetry, prop) ==
    LET found == Ascending(Search(store, comps, phase_name, config, symmetry, prop))
    IN [k \in 1..Len(found) |-> FilterRecord(store[found[k]], config, symmetry)]

-----------------------------------------------------------------------------
(* _fit_parameters                                                          *)
(*                                                                          *)
(* A coefficient is a rational <<n, d>> in lowest terms, d > 0.  A residual *)
(* sum of squares is [zero |-> TRUE, ln |-> 0] for 0.0 and                  *)
(* [zero |-> FALSE, ln |-> j] for e^j, so that its logarithm is exact.  A   *)
(* score is [inf |-> TRUE, v |-> 0] for -inf and [inf |-> FALSE, v |-> n]   *)
(* for the number n; its field fault says that computing it raised.         *)

RECURSIVE GCD(_, _)
GCD(a, b) == IF b = 0 THEN a ELSE GCD(b, a % b)

Abs(n) == IF n < 0 THEN -n ELSE n

Rat(n, d) == LET g == GCD(Abs(n), d) IN <<n \div g, d \div g>>

ZeroCoef == <<0, 1>>

RECURSIVE Dot(_, _)
Dot(a, b) == IF a = <<>> THEN 0 ELSE Head(a) * Head(b) + Dot(Tail(a), Tail(b))

\* the response is an exact multiple of the column, that is the residual of
\* the one-column fit, y.y - (x.y)^2/(x.x), is 0
Reproduces(x, y) ==
    IF Dot(x, x) = 0 THEN Dot(y, y) = 0
    ELSE Dot(x, y) * Dot(x, y) = Dot(x, x) * Dot(y, y)

\* clf.fit on one column without intercept: (x.y)/(x.x), 0 for a zero column
LstsqOne(x, y) ==
    IF Dot(x, x) = 0 THEN ZeroCoef ELSE Rat(Dot(x, y), Dot(x, x))

RssZero   == [zero |-> TRUE, ln |-> 0]
RssExp(j) == [zero |-> FALSE, ln |-> j]

\* the nonzero residuals of the model: e^-1, e^1, e^2
NonzeroRss == {RssExp(-1), RssExp(1), RssExp(2)}

\* clf.fit(current_matrix, data_quantities) and line 217 for the first k
\* columns: the coefficients and rss it may produce.  The one-column fit is
\* computed; a wider fit depends on columns and rounding the model leaves
\* open, so its rss is any value and its coefficients are tagged <<10k+j, 1>>.
ClfFit(k, x, y) ==
    IF k = 1
    THEN {[coef |-> <<LstsqOne(x, y)>>, rss |-> r] :
            r \in IF Reproduces(x, y) THEN {RssZero} ELSE NonzeroRss}
    ELSE {[coef |-> [j \in 1..k |-> <<10 * k + j, 1>>], rss |-> r] :
            r \in {RssZero} \cup NonzeroRss}

\* a logarithm that faults on 0 (math.log)
ScoreFaulting(k, rows, rss) ==
    IF rss.zero THEN [inf |-> FALSE, v |-> 0, fault |-> TRUE]
    ELSE [inf |-> FALSE, v |-> 2 * k + rows * rss.ln, fault |-> FALSE]

\* line 220: 2*num_params + rows*np.log(rss); np.log(0.0) is -inf (a
\* warning, no exception) and rows * -inf is -inf for rows > 0
Score(k, rows, rss) ==
    IF rss.zero THEN [inf |-> TRUE, v |-> 0, fault |-> FALSE]
    ELSE [inf |-> FALSE, v |-> 2 * k + rows * rss.ln, fault |-> FALSE]

ScoreLess(a, b) == IF a.inf THEN ~b.inf ELSE (~b.inf /\ a.v < b.v)

\* an argmin that returns the last position of the minimum
ArgMinLast(scores) ==
    CHOOSE i \in 1..Len(scores) :
        /\ \A j \in 1..Len(scores) : ~ScoreLess(scores[j], scores[i])
        /\ \A j \in (i + 1)..Len(scores) : ScoreLess(scores[i], scores[j])

\* np.argmin(model_scores) + 1: the first position of the minimum
ArgMin(scores) ==
    CHOOSE i \in 1..Len(scores) :
        /\ \A j \in 1..Len(scores) : ~ScoreLess(scores[j], scores[i])
        /\ \A j \in 1..(i - 1) : ScoreLess(scores[i], scores[j])

\* line 210: np.zeros((n, n))
Zeros(n) == [i \in 1..n |-> [j \in 1..n |-> ZeroCoef]]

\* line 222: results[num_params - 1, :num_params] = clf.coef_
SetRow(res, k, coef) ==
    [i \in 1..Len(res) |->
        IF i = k
        THEN [j \in 1..Len(res[i]) |-> IF j <= k THEN coef[j] ELSE res[i][j]]
        ELSE res[i]]

-----------------------------------------------------------------------------
(* _get_samples, _endmembers_from_interaction, fit_formation_energy         *)
(*                                                                          *)
(* A feature is [rk |-> d, term |-> t]: the term t of the property's        *)
(* polynomial (T*log(T) is "TlnT", T**-1 is "Tm1", the constant is "1"),    *)
(* multiplied by YS*Z**d in an interaction fit; rk is -1 in an endmember    *)
(* fit, where the feature is the bare term.  The endmembers argument is     *)
(* [none |-> TRUE, keys |-> {}] for None and otherwise the set of keys of   *)
(* the dict.                                                                *)

Properties == <<"CPM_FORM", "SM_FORM", "HM_FORM">>

\* lines 330-333
DefaultTerms ==
    [prop \in Range(Properties) |->
        CASE prop = "CPM_FORM" -> <<"TlnT", "T2", "Tm1", "T3">>
          [] prop = "SM_FORM"  -> <<"T">>
          [] prop = "HM_FORM"  -> <<"1">>]

DefaultFeatures ==
    [prop \in Range(Properties) |->
        [i \in 1..Len(DefaultTerms[prop]) |-> [rk |-> -1, term |-> DefaultTerms[prop][i]]]]

\* the number of Redlich-Kister features (YS, YS*Z, YS*Z**2, YS*Z**3), line 340
RedlichKisterCount == 4

\* lines 341-343: itertools.product(redlich_kister_features, features[feature])
ExpandedFeatures ==
    [prop \in Range(Properties) |->
        LET n == Len(DefaultTerms[prop])
        IN [i \in 1..(RedlichKisterCount * n) |->
              [rk |-> (i - 1) \div n, term |-> DefaultTerms[prop][((i - 1) % n) + 1]]]]

IsPair(occupant) == occupant.t \in {"list", "tuple"}

\* a test that asks every occupant to be a pair
IsInteractionAll(conf) == \A p \in 1..Len(conf) : IsPair(conf[p])

\* line 335: any occupant is a list or a tuple
IsInteraction(conf) == \E p \in 1..Len(conf) : IsPair(conf[p])

\* _endmembers_from_interaction(configuration), as a set
EndmembersFromInteraction(conf) ==
    {e \in [1..Len(conf) -> {Str(sA), Str(sB), Str(sC), Str(sD), Str(sO), Str(sCO)}] :
        \A p \in 1..Len(conf) :
            IF IsPair(conf[p])
            THEN e[p] \in {Str(conf[p].v[1]), Str(conf[p].v[2])}
            ELSE e[p] = conf[p]}

\* lines 348-351
ZeroParameters(feats) ==
    [f \in UNION {Range(feats[prop]) : prop \in DOMAIN feats} |-> 0]

RECURSIVE SumSeq(_)
SumSeq(s) == IF s = <<>> THEN 0 ELSE Head(s) + SumSeq(Tail(s))

Min(a, b) == IF a < b THEN a ELSE b

\* _get_samples: the number of samples of one record, len(temperatures)
\* times the length of zip(site_fraction_product, interaction_product)
SampleCount(data) ==
    LET fracs == IF data.solver.has_occupancies
                 THEN data.solver.sublattice_occupancies
                 ELSE <<<<[t |-> "num", v |-> <<10>>]>>>>
        pairs == SumSeq([i \in 1..Len(fracs) |->
                     Cardinality({p \in 1..Len(fracs[i]) :
                        fracs[i][p].t = "list" /\ Len(fracs[i][p].v) = 2})])
        interaction_product == IF pairs = 0 THEN 1 ELSE pairs
    IN Len(data.conditions.T) * Min(Len(fracs), interaction_product)

\* the length of np.asarray(data['values']).flatten()
ValueCount(data) ==
    SumSeq([t \in 1..Len(data.values) |-> Len(data.values[t])])

\* the fractions of one configuration instance, sublattice after sublattice:
\* itertools.chain(*[np.atleast_1d(f) for f in fracs]), in tenths
RECURSIVE ChainFractions(_)
ChainFractions(fracs) ==
    IF fracs = <<>> THEN <<>> ELSE Head(fracs).v \o ChainFractions(Tail(fracs))

\* reduce(operator.mul, ..., 1)
RECURSIVE ProductOf(_)
ProductOf(s) == IF s = <<>> THEN 1 ELSE Head(s) * ProductOf(Tail(s))

RECURSIVE PowerOfTen(_)
PowerOfTen(n) == IF n = 0 THEN 1 ELSE 10 * PowerOfTen(n - 1)

\* the product of the fractions left after the zeros are dropped
NonzeroFractionProduct(fracs) ==
    LET all == ChainFractions(fracs)
        idx == Ascending({i \in 1..Len(all) : all[i] # 0})
    IN Rat(ProductOf([k \in 1..Len(idx) |-> all[idx[k]]]), PowerOfTen(Len(idx)))

\* site_fraction_product of one instance, line 232: every fraction is a
\* factor
SiteFractionProduct(fracs) ==
    LET all == ChainFractions(fracs)
    IN Rat(ProductOf(all), PowerOfTen(Len(all)))

\* data['solver'].get('sublattice_occupancies', [[1]]), line 231
SiteFractions(data) ==
    IF data.solver.has_occupancies THEN data.solver.sublattice_occupancies
    ELSE <<<<[t |-> "num", v |-> <<10>>]>>>>

\* interaction_product, lines 236-239: f[0] - f[1] of every two-element list
\* of every instance, in tenths; [0] when there is none
RECURSIVE PairDifferences(_)
PairDifferences(fracs) ==
    IF fracs = <<>> THEN <<>>
    ELSE (IF Head(fracs).t = "list" /\ Len(Head(fracs).v) = 2
          THEN <<Head(fracs).v[1] - Head(fracs).v[2]>> ELSE <<>>)
         \o PairDifferences(Tail(fracs))

RECURSIVE InteractionProduct(_)
InteractionProduct(site_fractions) ==
    IF site_fractions = <<>> THEN <<>>
    ELSE PairDifferences(Head(site_fractions)) \o InteractionProduct(Tail(site_fractions))

\* itertools.product(temperatures, comp_features) of one record, lines
\* 240-241: a sample is (temperature, (YS, Z)); rec and inst name the record
\* and the position in the zip it was made from
RecordSamples(data, k) ==
    LET site_fractions == SiteFractions(data)
        found == InteractionProduct(site_fractions)
        interaction_product == IF Len(found) = 0 THEN <<0>> ELSE found
        n == Min(Len(site_fractions), Len(interaction_product))
    IN [r \in 1..(Len(data.conditions.T) * n) |->
          LET t == ((r - 1) \div n) + 1
              i == ((r - 1) % n) + 1
          IN [rec |-> k, inst |-> i, T |-> data.conditions.T[t],
              YS |-> SiteFractionProduct(site_fractions[i]),
              Z |-> interaction_product[i]]]

\* _get_samples(desired_data)
RECURSIVE SamplesFrom(_, _)
SamplesFrom(desired, k) ==
    IF k > Len(desired) THEN <<>>
    ELSE RecordSamples(desired[k], k) \o SamplesFrom(desired, k + 1)

GetSamples(desired) == SamplesFrom(desired, 1)

\* values.flatten() of one record, lines 286 and 358: temperature after
\* temperature, instance after instance
RecordResponse(data, k) ==
    LET n == Len(data.solver.sublattice_configurations)
    IN [r \in 1..(Len(data.values) * n) |->
          LET t == ((r - 1) \div n) + 1
              i == ((r - 1) % n) + 1
          IN [rec |-> k, inst |-> i, T |-> data.conditions.T[t],
              value |-> data.values[t][i]]]

\* np.concatenate of the flattened values of the records
RECURSIVE ResponseFrom(_, _)
ResponseFrom(desired, k) ==
    IF k > Len(desired) THEN <<>>
    ELSE RecordResponse(desired[k], k) \o ResponseFrom(desired, k + 1)

Response(desired) == ResponseFrom(desired, 1)

\* _format_response_data raises: no occupancies to zip (line 272) or no
\* energy for an endmember of a configuration (line 276)
FormatRaises(prop, desired, em_arg) ==
    /\ prop # "CPM_FORM"
    /\ ~em_arg.none
    /\ \E k \in 1..Len(desired) :
          \/ ~desired[k].solver.has_occupancies
          \/ \E c \in Range(desired[k].solver.sublattice_configurations) :
                ~(EndmembersFromInteraction(c) \subseteq em_arg.keys)

\* what one of the three blocks of lines 353-398 does once its records are
\* there: "skip" without records; "raise" when _format_response_data finds
\* no occupancies (line 272) or no endmember energy (line 276), or when the
\* feature matrix has no row or not as many rows as the response has values;
\* "fit" otherwise
StageOutcome(prop, desired, em_arg) ==
    IF desired = <<>> THEN "skip"
    ELSE IF FormatRaises(prop, desired, em_arg)
    THEN "raise"
    ELSE IF \/ SumSeq([k \in 1..Len(desired) |-> SampleCount(desired[k])]) = 0
            \/ SumSeq([k \in 1..Len(desired) |-> SampleCount(desired[k])])
                 # SumSeq([k \in 1..Len(desired) |-> ValueCount(desired[k])])
    THEN "raise"
    ELSE "fit"

\* an update that replaces the whole map by the fit of one property
UpdatedParametersOnly(params, feats, k) ==
    [f \in DOMAIN params |->
        IF \E i \in 1..k : feats[i] = f THEN 1 ELSE 0]

\* parameters.update(_fit_parameters(...)) when the model of k parameters
\* wins: the first k features of the property get a fitted coefficient (1
\* stands for it), the others of the property 0
UpdatedParameters(params, feats, k) ==
    [f \in DOMAIN params |->
        IF \E i \in 1..Len(feats) : feats[i] = f
        THEN IF \E i \in 1..k : feats[i] = f THEN 1 ELSE 0
        ELSE params[f]]

-----------------------------------------------------------------------------
(* _generate_symmetric_group and phase_fit                                  *)
(*                                                                          *)
(* A database parameter is [kind, phase_name, configuration, degree, expr]; *)
(* its configuration is tuple(map(_to_tuple, em)): one tuple of species     *)
(* names per sublattice.  An expression is [parameters, refdata]: the       *)
(* fitted coefficient of each feature and, for an endmember, the summed     *)
(* site ratio of each GHSER symbol.  sigfigs rounds a coefficient to six    *)
(* digits; the coefficients of the model (0 and 1) are their own rounding.  *)

\* np.roll(row, 1)
Roll(s) == IF s = <<>> THEN s ELSE <<s[Len(s)]>> \o SubSeq(s, 1, Len(s) - 1)

\* permute(x), lines 520-525
Permute(x) ==
    IF Len(x) = 0 THEN x
    ELSE Roll([x EXCEPT ![1] = Roll(x[1])])

\* lines 528-539: the configuration read through the current permutation
\* and written at the positions of the original symmetry
NewConf(conf, symmetry_sets, permutation) ==
    LET Writes(p) == {ki \in {<<k, i>> : k \in 1..Len(symmetry_sets), i \in 1..Len(conf)} :
                        /\ ki[2] <= Len(symmetry_sets[ki[1]])
                        /\ symmetry_sets[ki[1]][ki[2]] + 1 = p}
        LastWrite(W) == CHOOSE w \in W : \A u \in W :
                            u[1] < w[1] \/ (u[1] = w[1] /\ u[2] <= w[2])
    IN [p \in 1..Len(conf) |->
          IF Writes(p) = {} THEN TupleIfList(conf[p])
          ELSE LET w == LastWrite(Writes(p))
               IN conf[permutation[w[1]][w[2]] + 1]]

\* a loop that stops after its first pass
GroupLoopOnce(configurations, conf, symmetry_sets, permutation) ==
    LET next == Permute(permutation)
    IN IF next = symmetry_sets THEN configurations
       ELSE Append(configurations, NewConf(conf, symmetry_sets, next))

\* the loop of line 527: every permutation met before the start comes back
RECURSIVE GroupLoop(_, _, _, _)
GroupLoop(configurations, conf, symmetry_sets, permutation) ==
    LET next == Permute(permutation)
    IN IF next = symmetry_sets THEN configurations
       ELSE GroupLoop(Append(configurations, NewConf(conf, symmetry_sets, next)),
                      conf, symmetry_sets, next)

\* the order of canonical_sort_key on configurations (and of tuples of str)
RECURSIVE ConfigKeyLess(_, _)
ConfigKeyLess(c1, c2) ==
    IF c2 = <<>> THEN FALSE
    ELSE IF c1 = <<>> THEN TRUE
    ELSE IF KeyLess(Head(c1).v, Head(c2).v) THEN TRUE
    ELSE IF KeyLess(Head(c2).v, Head(c1).v) THEN FALSE
    ELSE ConfigKeyLess(Tail(c1), Tail(c2))

\* sorted(set(...), key=canonical_sort_key)
RECURSIVE SortedConfigs(_)
SortedConfigs(S) ==
    IF S = {} THEN <<>>
    ELSE LET m == CHOOSE x \in S : \A y \in S : ~ConfigKeyLess(y, x)
         IN <<m>> \o SortedConfigs(S \ {m})

\* _generate_symmetric_group(configuration, symmetry).  It raises for
\* symmetry None (len() of the 0-d array of line 518, line 521), and when a
\* configuration of pairs only has been permuted: np.array of it is
\* two-dimensional, tuple(new_conf) holds arrays and set() cannot hash them;
\* nor can it hash a new configuration that holds a list, which line 538
\* takes from the configuration as it was handed in.
GenerateSymmetricGroup(conf, symmetry) ==
    IF symmetry.none THEN [raised |-> TRUE, group |-> <<>>]
    ELSE LET configurations ==
                 GroupLoop(<<ConfigToTuple(conf)>>, conf, symmetry.sets, symmetry.sets)
         IN IF /\ Len(configurations) > 1
               /\ \/ \A p \in 1..Len(conf) : IsPair(conf[p])
                  \/ \E i \in 2..Len(configurations) :
                        \E p \in 1..Len(conf) : configurations[i][p].t = "list"
            THEN [raised |-> TRUE, group |-> <<>>]
            ELSE [raised |-> FALSE, group |-> SortedConfigs(Range(configurations))]

\* the caller's database after phase_fit has called add_parameter: dbf is
\* the object the caller handed in (line 544), no copy is taken
CallerAfterPhaseFit(caller, working) == [caller EXCEPT !.parameters = working]

\* itertools.product(*subl_model)
Product(subl_model) ==
    {e \in [1..Len(subl_model) -> UNION {Range(subl_model[p]) : p \in 1..Len(subl_model)}] :
        \A p \in 1..Len(subl_model) : e[p] \in Range(subl_model[p])}

\* line 566
CanonicalEndmembers(subl_model, symmetry) ==
    SortedConfigs({canonicalize(e, symmetry) : e \in Product(subl_model)})

\* lines 581-585: the site ratio summed per GHSER symbol, 'VA' skipped
RefData(endmember, site_ratios) ==
    [name \in {endmember[p].v[1] : p \in 1..Len(endmember)} \ {sVA} |->
        SumSeq([p \in 1..Len(endmember) |->
                   IF endmember[p].v[1] = name THEN site_ratios[p] ELSE 0])]

\* fit_formation_energy from its stage-th block on: the maps it may return
RECURSIVE FfeFrom(_, _, _, _, _, _, _, _)
FfeFrom(stg, params, feats, store, comps, phase_name, conf, call) ==
    IF stg > Len(Properties) THEN {[raised |-> FALSE, parameters |-> params]}
    ELSE LET prop == Properties[stg]
             desired == GetData(store, comps, phase_name, conf, call.symmetry, prop)
             outcome == StageOutcome(prop, desired, call.endmembers)
         IN CASE outcome = "skip" ->
                   FfeFrom(stg + 1, params, feats, store, comps, phase_name, conf, call)
              [] outcome = "raise" -> {[raised |-> TRUE, parameters |-> <<>>]}
              [] outcome = "fit" ->
                   UNION {FfeFrom(stg + 1, UpdatedParameters(params, feats[prop], k),
                                  feats, store, comps, phase_name, conf, call) :
                            k \in 1..Len(feats[prop])}

\* fit_formation_energy(comps, phase_name, configuration, symmetry, datasets,
\* endmembers=...): what it may return, or that it raises
FitFormationEnergy(store, comps, phase_name, conf, symmetry, em_arg) ==
    LET call  == [symmetry |-> symmetry, endmembers |-> em_arg]
        feats == IF IsInteraction(conf) THEN ExpandedFeatures ELSE DefaultFeatures
    IN IF IsInteraction(conf) /\ em_arg.none
       THEN {[raised |-> TRUE, parameters |-> <<>>]}
       ELSE FfeFrom(1, ZeroParameters(feats), feats, store, comps, phase_name, conf, call)

\* tuple(sorted([first_occupant, second_occupant])), line 602
SortedPair(a, b) ==
    IF StrLess(b.v[1], a.v[1]) THEN Tuple(b.v[1], a.v[1]) ELSE Tuple(a.v[1], b.v[1])

\* lines 597-603
Interaction(first_endmember, second_endmember) ==
    [p \in 1..Len(first_endmember) |->
        IF first_endmember[p] = second_endmember[p] THEN first_endmember[p]
        ELSE SortedPair(first_endmember[p], second_endmember[p])]

\* lines 594-605
BinInteractions(ems, symmetry) ==
    SortedConfigs({canonicalize(Interaction(ems[i], ems[j]), symmetry) :
                     i \in 1..Len(ems), j \in 1..Len(ems)} \
                  {canonicalize(Interaction(ems[i], ems[i]), symmetry) : i \in 1..Len(ems)})

\* the length of degree_polys, line 618
DegreeCount == 10

\* reversed(range(10)), line 619
ScanOrder == [i \in 1..DegreeCount |-> DegreeCount - i]

\* key.has(check_symbol), line 623, for check_symbol = YS*Z**degree: a
\* product matches the keys whose factors include its own, YS and Z**degree
\* (Z for degree 1); for degree 0 the check symbol is YS*Z**0 = YS, a symbol
\* every interaction feature holds
Has(key, degree) == IF degree = 0 THEN key.rk >= 0 ELSE key.rk = degree

\* the all-zero degree_polys of line 618; a polynomial is the map of its
\* terms to their coefficients
ZeroPolys == [d \in 0..(DegreeCount - 1) |-> <<>>]

\* lines 619-633: the degrees in the order of the scan; the keys that match
\* are added to the polynomial of the degree and popped
RECURSIVE DegreeScan(_, _, _)
DegreeScan(order, params, polys) ==
    IF order = <<>> THEN [polys |-> polys, left |-> params]
    ELSE LET degree == Head(order)
             keys_to_remove == {key \in DOMAIN params : Has(key, degree)}
         IN DegreeScan(Tail(order),
                       [key \in DOMAIN params \ keys_to_remove |-> params[key]],
                       [polys EXCEPT ![degree] =
                           [key \in keys_to_remove |-> params[key]]])

\* degree_polys[degree] != 0, line 638: some term has a coefficient
NonzeroPoly(poly) == \E key \in DOMAIN poly : poly[key] # 0

\* the expression written for a degree
DegreePoly(polys, d) == [parameters |-> polys[d], refdata |-> <<>>]

\* tuple(map(_to_tuple, em)), lines 572-576
ToTuples(em) == [p \in 1..Len(em) |-> em[p].v]

\* dbf.add_parameter(kind, phase_name, configuration, degree, expr) for every
\* configuration of a group
AddParameters(db, kind, phase_name, group, degree, expr) ==
    db \o [i \in 1..Len(group) |->
              [kind |-> kind, phase_name |-> phase_name,
               configuration |-> ToTuples(group[i]), degree |-> degree, expr |-> expr]]

\* lines 637-640, from degree d on
RECURSIVE AddDegrees(_, _, _, _, _)
AddDegrees(db, phase_name, group, polys, d) ==
    IF d > DegreeCount - 1 THEN db
    ELSE AddDegrees(IF NonzeroPoly(polys[d])
                    THEN AddParameters(db, "L", phase_name, group, d, DegreePoly(polys, d))
                    ELSE db,
                    phase_name, group, polys, d + 1)

-----------------------------------------------------------------------------
(* Scenario "canon": canonicalize is called on a configuration, then either *)
(* on a symmetry-consistent permutation of it or on its own result.         *)

\* occupants: scalar species (one of them two characters long) and pairs,
\* as tuples and as lists
CanonOccupants ==
    {Str(sA), Str(sCO), Tuple(sC, sO), List(sC, sO), Tuple(sA, sB)}

CanonConfigurations ==
    UNION {SeqsOfLen(CanonOccupants, n) : n \in 2..MaxSublattices}

\* the ascending and the descending listing of each non-empty set of indices
IndexLists(n) ==
    UNION {{Ascending(S), Reverse(Ascending(S))} : S \in (SUBSET (0..(n - 1))) \ {{}}}

\* symmetries over n positions: None, [], one index-set, two disjoint ones
Symmetries(n) ==
    {None, Sym(<<>>)}
    \cup {Sym(<<a>>) : a \in IndexLists(n)}
    \cup {Sym(<<ab[1], ab[2]>>) :
             ab \in {x \in IndexLists(n) \X IndexLists(n) :
                       Range(x[1]) \cap Range(x[2]) = {}}}

\* permutations of the positions 1..n that only exchange positions lying in
\* the same index-set of the symmetry
ConsistentPermutations(n, symmetry) ==
    {p \in [1..n -> 1..n] :
        /\ \A i, j \in 1..n : p[i] = p[j] => i = j
        /\ \A i \in 1..n :
              \/ p[i] = i
              \/ /\ ~symmetry.none
                 /\ \E k \in 1..Len(symmetry.sets) :
                       {i - 1, p[i] - 1} \subseteq Range(symmetry.sets[k])}

Permuted(conf, p) == [i \in 1..Len(conf) |-> conf[p[i]]]

NoQuery ==
    [comps |-> <<>>, phase_name |-> "", configuration |-> <<>>,
     symmetry |-> None, prop |-> ""]

DataIdle ==
    /\ datasets = <<>>
    /\ query = NoQuery
    /\ searched = <<>>
    /\ desired_data = <<>>
    /\ dpc = "idle"

AicIdle ==
    /\ first_column = <<>>
    /\ data_quantities = <<>>
    /\ feature_count = 0
    /\ num_params = 0
    /\ rss_values = <<>>
    /\ model_scores = <<>>
    /\ results = <<>>
    /\ parameters = <<>>
    /\ selected = 0
    /\ apc = "idle"

NoArgs ==
    [configuration |-> <<>>, symmetry |-> None,
     endmembers |-> [none |-> TRUE, keys |-> {}]]

FfeIdle ==
    /\ ffe_args = NoArgs
    /\ features = <<>>
    /\ ffe_parameters = <<>>
    /\ ffe_events = <<>>
    /\ stage = 0
    /\ all_samples = <<>>
    /\ response = <<>>
    /\ fpc = "idle"

NoPhase == [symmetry |-> None, subl_model |-> <<>>, site_ratios |-> <<>>, comps |-> <<>>]

PfIdle ==
    /\ pf_args = NoPhase
    /\ endmembers = <<>>
    /\ em_dict = <<>>
    /\ bin_interactions = <<>>
    /\ pf_index = 0
    /\ pf_fitted = <<>>
    /\ pf_parameters = <<>>
    /\ degree_polys = <<>>
    /\ ppc = "idle"

NoGroup == [raised |-> FALSE, group |-> <<>>]

SgIdle ==
    /\ sg_configuration = <<>>
    /\ sg_symmetry = None
    /\ sg_group = NoGroup
    /\ sg_member = <<>>
    /\ sg_member_group = NoGroup
    /\ gpc = "idle"

NoDatabase == [parameters |-> <<>>, symbols |-> <<>>]

NoContext ==
    [arg |-> [none |-> TRUE, names |-> {}], symbols_to_fit |-> <<>>,
     symbols |-> <<>>, todo |-> <<>>]

DbIdle ==
    /\ caller_dbf = NoDatabase
    /\ ctx = NoContext
    /\ xpc = "idle"

CanonInit ==
    /\ configuration \in CanonConfigurations
    /\ equivalent_sublattices \in Symmetries(Len(configuration))
    /\ canonicalized = <<>>
    /\ canonicalized2 = <<>>
    /\ cpc = "start"
    /\ DataIdle
    /\ AicIdle
    /\ FfeIdle
    /\ PfIdle
    /\ SgIdle
    /\ dbf = <<>>
    /\ DbIdle

CanonIdle ==
    /\ configuration = <<>>
    /\ equivalent_sublattices = None
    /\ canonicalized = <<>>
    /\ canonicalized2 = <<>>
    /\ cpc = "idle"

CanonicalizeFirst ==
    /\ cpc = "start"
    /\ canonicalized' = canonicalize(configuration, equivalent_sublattices)
    /\ cpc' = "first"
    /\ UNCHANGED <<configuration, equivalent_sublattices, canonicalized2>>
    /\ UNCHANGED <<dataVars, aicVars, ffeVars, pfVars, sgVars, ctxVars, dbf, caller_dbf>>

PermuteConfiguration ==
    /\ cpc = "first"
    /\ \E p \in ConsistentPermutations(Len(configuration), equivalent_sublattices) :
          /\ \E i \in 1..Len(configuration) : p[i] # i
          /\ configuration' = Permuted(configuration, p)
    /\ cpc' = "permuted"
    /\ UNCHANGED <<equivalent_sublattices, canonicalized, canonicalized2>>
    /\ UNCHANGED <<dataVars, aicVars, ffeVars, pfVars, sgVars, ctxVars, dbf, caller_dbf>>

CanonicalizePermuted ==
    /\ cpc = "permuted"
    /\ canonicalized2' = canonicalize(configuration, equivalent_sublattices)
    /\ cpc' = "second"
    /\ UNCHANGED <<configuration, equivalent_sublattices, canonicalized>>
    /\ UNCHANGED <<dataVars, aicVars, ffeVars, pfVars, sgVars, ctxVars, dbf, caller_dbf>>

CanonicalizeAgain ==
    /\ cpc = "first"
    /\ canonicalized2' = canonicalize(canonicalized, equivalent_sublattices)
    /\ cpc' = "again"
    /\ UNCHANGED <<configuration, equivalent_sublattices, canonicalized>>
    /\ UNCHANGED <<dataVars, aicVars, ffeVars, pfVars, sgVars, ctxVars, dbf, caller_dbf>>

CanonNext ==
    \/ CanonicalizeFirst
    \/ PermuteConfiguration
    \/ CanonicalizePermuted
    \/ CanonicalizeAgain

SpecCanon == CanonInit /\ [][CanonNext]_vars

\* C1: canonicalize is symmetry-invariant: the canonical form of a
\* configuration and of any permutation of it that only exchanges positions
\* of the same index-set are equal, for scalar and pair occupants.
C1_SymmetryInvariant ==
    cpc = "second" => canonicalized2 = canonicalized

\* C2: canonicalize is idempotent: canonicalizing a canonical form under the
\* same symmetry (None included) returns it unchanged.
C2_Idempotent ==
    cpc = "again" => canonicalized2 = canonicalized

\* a configuration with a pair and a scalar inside one index-set has been
\* canonicalized twice and the sort has reordered it
C2_Witness ==
    /\ cpc = "again"
    /\ ~equivalent_sublattices.none
    /\ canonicalized # configuration
    /\ \E i, j \in 1..Len(configuration) :
          configuration[i].t = "str" /\ configuration[j].t = "list"

-----------------------------------------------------------------------------
(* Scenario "data": a store is loaded, _get_data is called on it with any   *)
(* query, and the last query is repeated.                                   *)

MaxInstances == 2

\* stored configurations of a two-sublattice phase: endmembers, and an
\* interaction whose pair is a list (loaded from JSON) or a tuple
DataConfigs2 ==
    {<<Str(sA), Str(sB)>>, <<Str(sB), Str(sA)>>,
     <<Str(sA), List(sB, sC)>>, <<Str(sA), Tuple(sB, sC)>>,
     <<List(sB, sC), Str(sA)>>}

\* stored configurations of a three-sublattice phase
DataConfigs3 ==
    {<<Str(sA), Str(sB), Str(sA)>>, <<Str(sB), Str(sA), Str(sA)>>}

\* the configuration lists of a record: every instance of the same length
DataConfigLists ==
    UNION {SeqsOfLen(DataConfigs2, n) \cup SeqsOfLen(DataConfigs3, n) :
             n \in 1..MaxInstances}

\* site fractions in tenths: 1.0 for a scalar occupant, [i/10, 1 - i/10] for
\* the pair of instance i
Occupancy(conf, i) ==
    [p \in 1..Len(conf) |->
        IF conf[p].t = "str" THEN [t |-> "num",  v |-> <<10>>]
        ELSE [t |-> "list", v |-> <<i, 10 - i>>]]

DataTemperatures ==
    {<<29815>>, <<30000, 29814, 40000>>}

DataRecord(out, comps, phases, mode, confs, hasocc, T) ==
    [output     |-> out,
     components |-> comps,
     phases     |-> phases,
     solver     |-> [mode |-> mode,
                     sublattice_configurations |-> confs,
                     has_occupancies |-> hasocc,
                     sublattice_occupancies |->
                         IF hasocc
                         THEN [i \in 1..Len(confs) |-> Occupancy(confs[i], i)]
                         ELSE <<>>],
     conditions |-> [T |-> T],
     values     |-> [t \in 1..Len(T) |-> [c \in 1..Len(confs) |-> 10 * t + c]]]

\* output, components, phases and solver mode of a record: those of the
\* queries of the scenario, or one of them different
DataHeaders ==
    {<<"HM_FORM",  <<"A", "B", "C">>, <<"ALPHA">>,         "manual">>,
     <<"CPM_FORM", <<"A", "B", "C">>, <<"ALPHA">>,         "manual">>,
     <<"HM_FORM",  <<"B", "A", "C">>, <<"ALPHA">>,         "manual">>,
     <<"HM_FORM",  <<"A", "B", "C">>, <<"ALPHA", "BETA">>, "manual">>,
     <<"HM_FORM",  <<"A", "B", "C">>, <<"ALPHA">>,         "sqs">>}

DataRecords ==
    {DataRecord(h[1], h[2], h[3], h[4], confs, hasocc, T) :
        h \in DataHeaders, confs \in DataConfigLists,
        hasocc \in BOOLEAN, T \in DataTemperatures}

\* a second record that every HM_FORM endmember query of (A, B) finds
SecondRecord ==
    DataRecord("HM_FORM", <<"A", "B", "C">>, <<"ALPHA">>, "manual",
               <<<<Str(sA), Str(sB)>>>>, FALSE, <<29815>>)

DataStores ==
    {<<r>> : r \in DataRecords} \cup {<<SecondRecord, r>> : r \in DataRecords}

DataQueries ==
    [comps : {<<"A", "B", "C">>}, phase_name : {"ALPHA"},
     configuration : {<<Str(sA), Str(sB)>>, <<Str(sB), Str(sA)>>,
                      <<Str(sA), Tuple(sB, sC)>>, <<Tuple(sB, sC), Str(sA)>>},
     symmetry : {None, Sym(<<<<0, 1>>>>)},
     prop : {"HM_FORM", "CPM_FORM"}]

DataInit ==
    /\ datasets \in DataStores
    /\ query = NoQuery
    /\ searched = <<>>
    /\ desired_data = <<>>
    /\ dpc = "loaded"
    /\ CanonIdle
    /\ AicIdle
    /\ FfeIdle
    /\ PfIdle
    /\ SgIdle
    /\ dbf = <<>>
    /\ DbIdle

\* _get_data(comps, phase_name, configuration, symmetry, datasets, prop)
CallGetData(q) ==
    LET hits == Ascending(Search(datasets, q.comps, q.phase_name,
                                 q.configuration, q.symmetry, q.prop))
        result == GetData(datasets, q.comps, q.phase_name,
                          q.configuration, q.symmetry, q.prop)
    IN /\ query' = q
       /\ searched' = hits
       /\ desired_data' = result
       /\ datasets' = StoreAfterGetData(datasets, hits, result)

QueryData ==
    /\ dpc \in {"loaded", "repeated"}
    /\ \E q \in DataQueries : CallGetData(q)
    /\ dpc' = "queried"
    /\ UNCHANGED <<canonVars, aicVars, ffeVars, pfVars, sgVars, ctxVars, dbf, caller_dbf>>

RepeatQuery ==
    /\ dpc = "queried"
    /\ CallGetData(query)
    /\ dpc' = "repeated"
    /\ UNCHANGED <<canonVars, aicVars, ffeVars, pfVars, sgVars, ctxVars, dbf, caller_dbf>>

DataNext == QueryData \/ RepeatQuery

SpecData == DataInit /\ [][DataNext]_vars

Queried == dpc \in {"queried", "repeated"}

\* the canonical form with pair occupants read as tuples, however stored
CanonicalForm(conf, symmetry) == ConfigToTuple(canonicalize(conf, symmetry))

\* C4: _get_data returns a record if and only if its output is the queried
\* property, its components are the queried list, its phases are exactly
\* [phase_name] and one of its stored configurations has the canonical form
\* of the query, whatever its other solver fields are and whether its pairs
\* are stored as lists or as tuples.
C4_ReturnedIffMatches ==
    Queried =>
        \A i \in 1..Len(datasets) :
            (i \in Range(searched)) <=>
                /\ datasets[i].output = query.prop
                /\ datasets[i].components = query.comps
                /\ datasets[i].phases = <<query.phase_name>>
                /\ \E c \in Range(datasets[i].solver.sublattice_configurations) :
                      CanonicalForm(c, query.symmetry)
                        = CanonicalForm(query.configuration, query.symmetry)

\* the stored instances whose canonical form equals that of the query
MatchingInstances(data) ==
    Ascending({i \in 1..Len(data.solver.sublattice_configurations) :
                 canonicalize(data.solver.sublattice_configurations[i], query.symmetry)
                   = canonicalize(query.configuration, query.symmetry)})

\* the stored temperatures that are at least 298.15 K
KeptTemperatures(data) ==
    Ascending({t \in 1..Len(data.conditions.T) : data.conditions.T[t] >= TMin})

\* C5: in every returned record the retained configurations are exactly the
\* stored instances whose canonical form equals the query's, in stored
\* order, and the trailing axis of values and the occupancies (when present)
\* are sliced to the same instances, so the three have equal length.
C5_SlicedToMatchingInstances ==
    Queried =>
        \A k \in 1..Len(desired_data) :
            LET stored == datasets[searched[k]]
                data   == desired_data[k]
                m      == MatchingInstances(stored)
            IN /\ data.solver.sublattice_configurations
                    = [j \in 1..Len(m) |->
                         ConfigToTuple(stored.solver.sublattice_configurations[m[j]])]
               /\ \A t \in 1..Len(data.values) :
                     /\ Len(data.values[t]) = Len(m)
                     /\ \A j \in 1..Len(m) : data.values[t][j] % 10 = m[j]
               /\ data.solver.has_occupancies =>
                     data.solver.sublattice_occupancies
                       = [j \in 1..Len(m) |-> stored.solver.sublattice_occupancies[m[j]]]

\* a returned record with occupancies of which one instance was kept and
\* another dropped
C5_Witness ==
    /\ Queried
    /\ \E k \in 1..Len(desired_data) :
          /\ desired_data[k].solver.has_occupancies
          /\ Len(desired_data[k].solver.sublattice_configurations) = 1
          /\ Len(datasets[searched[k]].solver.sublattice_configurations) > 1
          /\ desired_data[k].values # <<>>

\* C6: in every returned record the temperatures are exactly the stored
\* temperatures >= 298.15 K in stored order (298.15 K kept) and the
\* temperature axis of values is sliced with the same mask: it is shorter
\* if a stored temperature was below 298.15 K and unchanged otherwise.
C6_TemperatureFilter ==
    Queried =>
        \A k \in 1..Len(desired_data) :
            LET stored == datasets[searched[k]]
                data   == desired_data[k]
                kept   == KeptTemperatures(stored)
            IN /\ data.conditions.T = [j \in 1..Len(kept) |-> stored.conditions.T[kept[j]]]
               /\ Len(data.values) = Len(kept)
               /\ \A j \in 1..Len(kept) :
                     \A c \in 1..Len(data.values[j]) :
                         data.values[j][c] \div 10 = kept[j]
               /\ IF \E t \in 1..Len(stored.conditions.T) : stored.conditions.T[t] < TMin
                  THEN Len(data.values) < Len(stored.values)
                  ELSE Len(data.values) = Len(stored.values)

\* a returned record that lost a temperature below 298.15 K and kept others
C6_Witness ==
    /\ Queried
    /\ \E k \in 1..Len(desired_data) :
          /\ 0 < Len(desired_data[k].conditions.T)
          /\ Len(desired_data[k].conditions.T) < Len(datasets[searched[k]].conditions.T)
          /\ desired_data[k].values[1] # <<>>

\* a returned record whose only temperature is 298.15 K itself
C6_WitnessBoundary ==
    /\ Queried
    /\ \E k \in 1..Len(desired_data) : desired_data[k].conditions.T = <<TMin>>

\* C7: _get_data never modifies the dataset store, and repeating a query
\* returns a result equal to the first one.
C7_StoreUnchanged ==
    [][/\ datasets' = datasets
       /\ dpc' = "repeated" => desired_data' = desired_data]_vars

\* a query has been repeated whose result differs from the stored record
C7_Witness ==
    /\ dpc = "repeated"
    /\ \E k \in 1..Len(desired_data) :
          /\ desired_data[k].values # datasets[searched[k]].values
          /\ desired_data[k].solver # datasets[searched[k]].solver
          /\ desired_data[k].conditions # datasets[searched[k]].conditions

-----------------------------------------------------------------------------
(* Scenario "aic": _fit_parameters runs its loop over the candidate models  *)
(* and returns.                                                             *)

MaxRows == 2
MaxFeatures == 3

AicInit ==
    /\ \E rows \in 1..MaxRows :
          /\ first_column \in SeqsOfLen({0, 1, 2}, rows)
          /\ data_quantities \in SeqsOfLen({-2, 0, 3}, rows)
    /\ feature_count \in 1..MaxFeatures
    /\ num_params = 1
    /\ rss_values = <<>>
    /\ model_scores = <<>>
    /\ results = Zeros(feature_count)
    /\ parameters = <<>>
    /\ selected = 0
    /\ apc = "loop"
    /\ CanonIdle
    /\ DataIdle
    /\ FfeIdle
    /\ PfIdle
    /\ SgIdle
    /\ dbf = <<>>
    /\ DbIdle

\* one round of the loop of lines 212-223
FitCandidate ==
    /\ apc = "loop"
    /\ num_params <= feature_count
    /\ \E fit \in ClfFit(num_params, first_column, data_quantities) :
          LET score == Score(num_params, Len(first_column), fit.rss)
          IN /\ rss_values' = Append(rss_values, fit.rss)
             /\ IF score.fault
                THEN /\ apc' = "raised"
                     /\ UNCHANGED <<model_scores, results, num_params>>
                ELSE /\ model_scores' = Append(model_scores, score)
                     /\ results' = SetRow(results, num_params, fit.coef)
                     /\ num_params' = num_params + 1
                     /\ apc' = "loop"
    /\ UNCHANGED <<first_column, data_quantities, feature_count, parameters, selected>>
    /\ UNCHANGED <<canonVars, dataVars, ffeVars, pfVars, sgVars, ctxVars, dbf, caller_dbf>>

\* line 224
ReturnParameters ==
    /\ apc = "loop"
    /\ num_params > feature_count
    /\ selected' = ArgMin(model_scores)
    /\ parameters' = results[ArgMin(model_scores)]
    /\ apc' = "returned"
    /\ UNCHANGED <<first_column, data_quantities, feature_count, num_params,
                   rss_values, model_scores, results>>
    /\ UNCHANGED <<canonVars, dataVars, ffeVars, pfVars, sgVars, ctxVars, dbf, caller_dbf>>

AicNext == FitCandidate \/ ReturnParameters

SpecAIC == AicInit /\ [][AicNext]_vars

\* AIC of candidate k as the claim states it, 2k + rows*ln(RSS_k), compared
\* without the logarithm of 0: a zero RSS scores below every nonzero one
AicBelow(k1, k2) ==
    LET rows == Len(first_column)
    IN IF rss_values[k1].zero THEN ~rss_values[k2].zero
       ELSE /\ ~rss_values[k2].zero
            /\ 2 * k1 + rows * rss_values[k1].ln < 2 * k2 + rows * rss_values[k2].ln

\* the smallest k whose AIC is minimal
BestK(k) ==
    /\ \A j \in 1..feature_count : ~AicBelow(j, k)
    /\ \A j \in 1..(k - 1) : AicBelow(k, j)

\* C8: given N ordered features, _fit_parameters scores the N nested models
\* by AIC = 2k + rows*ln(RSS_k), selects the smallest k of minimal AIC and
\* returns an entry for each of the N features: the first k carry the
\* coefficients of the winning k-column fit, every later one is exactly 0.
C8_SelectsMinimumAIC ==
    apc = "returned" =>
        /\ Len(model_scores) = feature_count
        /\ Len(parameters) = feature_count
        /\ BestK(selected)
        /\ \A j \in 1..feature_count :
              parameters[j] = IF j > selected THEN ZeroCoef
                              ELSE IF selected = 1
                                   THEN LstsqOne(first_column, data_quantities)
                                   ELSE <<10 * selected + j, 1>>

\* a tie of the minimal AIC between two candidates, the narrower one
\* selected, and a wider model available
C8_WitnessTie ==
    /\ apc = "returned"
    /\ 1 < selected /\ selected < feature_count
    /\ \E j \in (selected + 1)..feature_count :
          ~AicBelow(selected, j) /\ ~AicBelow(j, selected)

\* C9: when the first column reproduces the response exactly (RSS = 0 for
\* num_params = 1 and for every wider model), _fit_parameters does not
\* raise, selects num_params = 1 and returns the exact scaling coefficient
\* for the first feature and 0 for all others.
C9_ExactFirstColumn ==
    (/\ apc \in {"returned", "raised"}
     /\ \A k \in 1..Len(rss_values) : rss_values[k].zero
     /\ Reproduces(first_column, data_quantities)) =>
        /\ apc = "returned"
        /\ selected = 1
        /\ \A i \in 1..Len(first_column) :
              parameters[1][1] * first_column[i] = parameters[1][2] * data_quantities[i]
        /\ \A j \in 2..feature_count : parameters[j] = ZeroCoef

\* an exact fit with a scaling other than 0 or 1 among several candidates
\* that all have RSS = 0
C9_Witness ==
    /\ apc = "returned"
    /\ feature_count > 1
    /\ \A k \in 1..feature_count : rss_values[k].zero
    /\ parameters[1] = <<-2, 1>>

-----------------------------------------------------------------------------
(* Scenario "ffe": fit_formation_energy is called on a configuration with   *)
(* the default features.                                                    *)

FfeComps == <<"A", "B", "C">>
FfePhase == "ALPHA"

\* records the calls of the scenario can find: endmember and interaction
\* data, with and without occupancies
FfeRecords ==
    {DataRecord("HM_FORM", FfeComps, <<FfePhase>>, "manual",
                <<<<Str(sA), Str(sB)>>>>, FALSE, <<29815, 40000>>),
     DataRecord("CPM_FORM", FfeComps, <<FfePhase>>, "manual",
                <<<<Str(sA), Str(sB)>>>>, FALSE, <<30000>>),
     DataRecord("SM_FORM", FfeComps, <<FfePhase>>, "manual",
                <<<<Str(sA), Tuple(sB, sC)>>>>, TRUE, <<30000>>),
     DataRecord("HM_FORM", FfeComps, <<FfePhase>>, "manual",
                <<<<Str(sA), Tuple(sB, sC)>>>>, FALSE, <<30000>>),
     DataRecord("CPM_FORM", FfeComps, <<FfePhase>>, "manual",
                <<<<Str(sA), Tuple(sB, sC)>>>>, TRUE, <<20000>>),
     [DataRecord("HM_FORM", FfeComps, <<FfePhase>>, "manual",
                 <<<<Str(sA), List(sB, sC)>>>>, TRUE, <<30000>>)
        EXCEPT !.solver.sublattice_occupancies =
                  <<<<[t |-> "num", v |-> <<10>>], [t |-> "list", v |-> <<0, 10>>]>>>>],
     DataRecord("HM_FORM", FfeComps, <<FfePhase>>, "manual",
                <<<<Str(sA), Str(sB)>>, <<Str(sB), Str(sA)>>>>, FALSE, <<30000>>)}

FfeStores ==
    {<<>>} \cup {<<r>> : r \in FfeRecords}
           \cup {<<r[1], r[2]>> : r \in FfeRecords \X FfeRecords}

FfeArguments ==
    [configuration : {<<Str(sA), Str(sB)>>, <<Str(sA), Tuple(sB, sC)>>,
                      <<Tuple(sB, sC), Str(sA)>>},
     symmetry : {None, Sym(<<<<0, 1>>>>)},
     endmembers : {[none |-> TRUE, keys |-> {}],
                   [none |-> FALSE, keys |-> {<<Str(sA), Str(sB)>>}],
                   [none |-> FALSE,
                    keys |-> {<<Str(sA), Str(sB)>>, <<Str(sA), Str(sC)>>,
                              <<Str(sB), Str(sA)>>, <<Str(sC), Str(sA)>>}]}]

FfeInit ==
    /\ datasets \in FfeStores
    /\ query = NoQuery
    /\ searched = <<>>
    /\ desired_data = <<>>
    /\ dpc = "loaded"
    /\ ffe_args \in FfeArguments
    /\ features = <<>>
    /\ ffe_parameters = <<>>
    /\ ffe_events = <<>>
    /\ stage = 0
    /\ all_samples = <<>>
    /\ response = <<>>
    /\ fpc = "start"
    /\ dbf = <<>>
    /\ DbIdle
    /\ CanonIdle
    /\ AicIdle
    /\ PfIdle
    /\ SgIdle

\* lines 329-351: the features, the check of the endmembers argument and the
\* zeroed parameter map
FfeSetup ==
    /\ fpc = "start"
    /\ IF IsInteraction(ffe_args.configuration)
       THEN /\ features' = ExpandedFeatures
            /\ IF ffe_args.endmembers.none
               THEN /\ fpc' = "raised"
                    /\ UNCHANGED <<ffe_parameters, stage>>
               ELSE /\ ffe_parameters' = ZeroParameters(ExpandedFeatures)
                    /\ stage' = 1
                    /\ fpc' = "stage"
       ELSE /\ features' = DefaultFeatures
            /\ ffe_parameters' = ZeroParameters(DefaultFeatures)
            /\ stage' = 1
            /\ fpc' = "stage"
    /\ UNCHANGED <<ffe_args, ffe_events, all_samples, response, dbf, caller_dbf>>
    /\ UNCHANGED <<canonVars, dataVars, aicVars, pfVars, sgVars, ctxVars>>

\* one of the blocks of lines 353-359, 360-378, 379-398
FfeStage ==
    /\ fpc = "stage"
    /\ stage \in 1..Len(Properties)
    /\ LET prop == Properties[stage]
           q == [comps |-> FfeComps, phase_name |-> FfePhase,
                 configuration |-> ffe_args.configuration,
                 symmetry |-> ffe_args.symmetry, prop |-> prop]
           desired == GetData(datasets, q.comps, q.phase_name, q.configuration,
                              q.symmetry, q.prop)
           outcome == StageOutcome(prop, desired, ffe_args.endmembers)
       IN /\ CallGetData(q)
          /\ all_samples' = IF desired = <<>> THEN all_samples ELSE GetSamples(desired)
          /\ response' = IF desired = <<>> \/ FormatRaises(prop, desired, ffe_args.endmembers)
                         THEN response ELSE Response(desired)
          /\ CASE outcome = "skip" ->
                    /\ ffe_events' = Append(ffe_events, <<"query", prop>>)
                    /\ stage' = stage + 1
                    /\ UNCHANGED <<ffe_parameters, fpc>>
               [] outcome = "raise" ->
                    /\ ffe_events' = Append(ffe_events, <<"query", prop>>)
                    /\ fpc' = "raised"
                    /\ UNCHANGED <<ffe_parameters, stage>>
               [] outcome = "fit" ->
                    /\ \E k \in 1..Len(features[prop]) :
                          ffe_parameters' = UpdatedParameters(ffe_parameters, features[prop], k)
                    /\ ffe_events' = ffe_events \o <<<<"query", prop>>, <<"fit", prop>>>>
                    /\ stage' = stage + 1
                    /\ UNCHANGED fpc
    /\ UNCHANGED <<ffe_args, features, dbf, caller_dbf, dpc>>
    /\ UNCHANGED <<canonVars, aicVars, pfVars, sgVars, ctxVars>>

\* line 399
FfeReturn ==
    /\ fpc = "stage"
    /\ stage > Len(Properties)
    /\ fpc' = "returned"
    /\ UNCHANGED <<ffe_args, features, ffe_parameters, ffe_events, stage, all_samples,
                   response, dbf, caller_dbf>>
    /\ UNCHANGED <<canonVars, dataVars, aicVars, pfVars, sgVars, ctxVars>>

FfeNext == FfeSetup \/ FfeStage \/ FfeReturn

SpecFFE == FfeInit /\ [][FfeNext]_vars

\* C10: fit_formation_energy called with a configuration that contains a
\* pair occupant and without an endmember-energy map fails with the
\* configuration error before any dataset query or regression, returns no
\* parameter map and writes nothing to the database.
C10_InteractionNeedsEndmembers ==
    (/\ fpc # "start"
     /\ \E p \in 1..Len(ffe_args.configuration) : ffe_args.configuration[p].t # "str"
     /\ ffe_args.endmembers.none) =>
        /\ fpc = "raised"
        /\ ffe_events = <<>>
        /\ ffe_parameters = <<>>
        /\ dbf = <<>>

\* scenario C of the specification: ('A', ('B','C')) without endmembers has
\* raised, although the store holds a record the query would have found
C10_Witness ==
    /\ fpc = "raised"
    /\ ffe_args.configuration = <<Str(sA), Tuple(sB, sC)>>
    /\ ffe_args.endmembers.none
    /\ ffe_events = <<>>
    /\ \E i \in 1..Len(datasets) :
          /\ datasets[i].output = "HM_FORM"
          /\ <<Str(sA), Tuple(sB, sC)>> \in Range(datasets[i].solver.sublattice_configurations)

\* the properties queried so far, in the order of the queries
QueriedProperties ==
    LET idx == Ascending({i \in 1..Len(ffe_events) : ffe_events[i][1] = "query"})
    IN [k \in 1..Len(idx) |-> ffe_events[idx[k]][2]]

\* C11: fit_formation_energy queries CPM_FORM, SM_FORM, HM_FORM in this
\* order; a stage whose query returns no record is skipped without error and
\* leaves the parameter map as it is; a stage that fits changes only the
\* coefficients of the features of its own property; and the map returned has
\* an entry for every feature of the three properties.
C11_StagesInOrderOwnFeatures ==
    [][/\ QueriedProperties' = SubSeq(Properties, 1, Len(QueriedProperties'))
       /\ (fpc = "stage" /\ stage \in 1..Len(Properties)) =>
             /\ (GetData(datasets, FfeComps, FfePhase, ffe_args.configuration,
                         ffe_args.symmetry, Properties[stage]) = <<>>)
                   => /\ fpc' = "stage"
                      /\ stage' = stage + 1
                      /\ ffe_parameters' = ffe_parameters
             /\ fpc' # "raised" =>
                   /\ DOMAIN ffe_parameters' = DOMAIN ffe_parameters
                   /\ \A f \in DOMAIN ffe_parameters :
                         f \notin Range(features[Properties[stage]])
                            => ffe_parameters'[f] = ffe_parameters[f]
       /\ fpc' = "returned" =>
             /\ QueriedProperties' = Properties
             /\ DOMAIN ffe_parameters'
                   = UNION {Range(features'[prop]) : prop \in Range(Properties)}
             /\ \A prop \in Range(Properties) :
                   Len(features'[prop]) = Len(DefaultTerms[prop])
                        * (IF IsInteraction(ffe_args.configuration)
                           THEN RedlichKisterCount ELSE 1)
                   /\ Cardinality(Range(features'[prop])) = Len(features'[prop])
      ]_vars

\* the heat capacity was fitted, the entropy stage found no record and was
\* skipped, the enthalpy was fitted, and the heat-capacity coefficient is
\* still there at the return
C11_Witness ==
    /\ fpc = "returned"
    /\ ffe_events = <<<<"query", "CPM_FORM">>, <<"fit", "CPM_FORM">>,
                      <<"query", "SM_FORM">>,
                      <<"query", "HM_FORM">>, <<"fit", "HM_FORM">>>>
    /\ \E f \in Range(features["CPM_FORM"]) : ffe_parameters[f] = 1
    /\ \E f \in Range(features["HM_FORM"]) : ffe_parameters[f] = 1

\* C17: the site-fraction product of every sample is the product of the
\* nonzero occupancy fractions of the configuration instance it was made
\* from; a fraction 0 is left out of the product.
C17_ProductOfNonzeroFractions ==
    [][(fpc = "stage" /\ desired_data' # <<>>) =>
          \A r \in 1..Len(all_samples') :
              LET s == all_samples'[r]
              IN s.YS = NonzeroFractionProduct(SiteFractions(desired_data'[s.rec])[s.inst])
      ]_vars

\* C18: the samples of a stage are as many as the entries of its flattened
\* response vector, and sample i and response entry i belong to the same
\* record, temperature and configuration instance.
C18_SamplesMatchResponse ==
    [][(/\ fpc = "stage"
        /\ desired_data' # <<>>
        /\ ~FormatRaises(query'.prop, desired_data', ffe_args.endmembers)) =>
          /\ Len(all_samples') = Len(response')
          /\ \A r \in 1..Min(Len(all_samples'), Len(response')) :
                /\ all_samples'[r].rec = response'[r].rec
                /\ all_samples'[r].T = response'[r].T
                /\ all_samples'[r].inst = response'[r].inst
      ]_vars

-----------------------------------------------------------------------------
(* Scenario "phase": phase_fit on a sublattice model, a symmetry and a      *)
(* dataset store.  The components are sorted(dbf.elements).                 *)

PhaseInput(subl_model, symmetry, site_ratios, comps) ==
    [subl_model |-> subl_model, symmetry |-> symmetry,
     site_ratios |-> site_ratios, comps |-> comps]

FfeComps4 == <<"A", "B", "C", "D">>

SublAB  == <<Str(sA), Str(sB)>>
SublABC == <<Str(sA), Str(sB), Str(sC)>>

PhaseInputs ==
    {PhaseInput(<<SublAB, SublAB, <<Str(sC)>>>>, Sym(<<<<0, 1>>>>), <<1, 1, 2>>, FfeComps),
     PhaseInput(<<SublAB, SublAB, <<Str(sC)>>>>, Sym(<<<<0>>, <<1>>>>), <<1, 1, 2>>, FfeComps),
     PhaseInput(<<SublABC, SublABC, SublABC, <<Str(sD)>>>>, Sym(<<<<0, 1, 2>>>>),
                <<1, 1, 1, 1>>, FfeComps4),
     PhaseInput(<<SublAB, SublAB>>, Sym(<<<<0, 1>>>>), <<1, 1>>, FfeComps),
     PhaseInput(<<SublAB, <<Str(sC), Str(sVA)>>>>, Sym(<<>>), <<1, 3>>, FfeComps),
     PhaseInput(<<SublAB, <<Str(sC)>>>>, None, <<1, 3>>, FfeComps)}

PhaseRecords ==
    <<DataRecord("HM_FORM", FfeComps, <<FfePhase>>, "manual",
                 <<<<Str(sA), Str(sB), Str(sC)>>>>, FALSE, <<29815>>),
      DataRecord("HM_FORM", FfeComps, <<FfePhase>>, "manual",
                 <<<<Str(sA), List(sA, sB), Str(sC)>>>>, TRUE, <<30000>>),
      DataRecord("SM_FORM", FfeComps4, <<FfePhase>>, "manual",
                 <<<<Str(sA), Str(sC), Str(sB), Str(sD)>>>>, FALSE, <<30000>>),
      DataRecord("CPM_FORM", FfeComps, <<FfePhase>>, "manual",
                 <<<<Str(sA), Str(sC)>>>>, FALSE, <<30000>>),
      DataRecord("HM_FORM", FfeComps4, <<FfePhase>>, "manual",
                 <<<<Str(sA), List(sA, sB), Str(sB), Str(sD)>>>>, TRUE, <<30000>>),
      DataRecord("SM_FORM", FfeComps, <<FfePhase>>, "manual",
                 <<<<List(sA, sB), List(sA, sB), Str(sC)>>>>, TRUE, <<30000, 40000>>)>>

PhaseStores ==
    {<<>>, PhaseRecords} \cup {<<PhaseRecords[i]>> : i \in {1, 2, 5, 6}}

PhaseInit ==
    /\ pf_args \in PhaseInputs
    /\ datasets \in PhaseStores
    /\ query = NoQuery
    /\ searched = <<>>
    /\ desired_data = <<>>
    /\ dpc = "idle"
    /\ endmembers = <<>>
    /\ em_dict = <<>>
    /\ bin_interactions = <<>>
    /\ pf_index = 0
    /\ pf_fitted = <<>>
    /\ pf_parameters = <<>>
    /\ degree_polys = <<>>
    /\ ppc = "start"
    /\ dbf = <<>>
    /\ DbIdle
    /\ CanonIdle
    /\ AicIdle
    /\ FfeIdle
    /\ SgIdle

\* lines 565-570
PfBegin ==
    /\ ppc = "start"
    /\ endmembers' = CanonicalEndmembers(pf_args.subl_model, pf_args.symmetry)
    /\ em_dict' = <<>>
    /\ pf_index' = 1
    /\ ppc' = "endmembers"
    /\ UNCHANGED <<pf_args, bin_interactions, pf_fitted, pf_parameters, degree_polys,
                   dbf, caller_dbf>>
    /\ UNCHANGED <<canonVars, dataVars, aicVars, ffeVars, sgVars, ctxVars>>

\* one pass of the loop of lines 578-592
PfEndmember ==
    /\ ppc = "endmembers"
    /\ pf_index <= Len(endmembers)
    /\ LET endmember == endmembers[pf_index]
       IN \E fitted \in FitFormationEnergy(datasets, pf_args.comps, FfePhase, endmember,
                                           pf_args.symmetry, [none |-> TRUE, keys |-> {}]) :
             LET fit_eq == [parameters |-> fitted.parameters,
                            refdata |-> RefData(endmember, pf_args.site_ratios)]
                 symmetric_endmembers == GenerateSymmetricGroup(endmember, pf_args.symmetry)
             IN IF fitted.raised
                THEN /\ ppc' = "raised"
                     /\ UNCHANGED <<em_dict, dbf, caller_dbf, pf_index, pf_fitted, pf_parameters>>
                ELSE /\ pf_fitted' = fitted.parameters
                     /\ pf_parameters' = fitted.parameters
                     /\ IF symmetric_endmembers.raised
                        THEN /\ ppc' = "raised"
                             /\ UNCHANGED <<em_dict, dbf, caller_dbf, pf_index>>
                        ELSE /\ em_dict' = [e \in DOMAIN em_dict
                                                  \cup Range(symmetric_endmembers.group) |->
                                               IF e \in Range(symmetric_endmembers.group)
                                               THEN fit_eq ELSE em_dict[e]]
                             /\ dbf' = AddParameters(dbf, "G", FfePhase,
                                                     symmetric_endmembers.group, 0, fit_eq)
                             /\ caller_dbf' = CallerAfterPhaseFit(caller_dbf, dbf')
                             /\ pf_index' = pf_index + 1
                             /\ UNCHANGED ppc
    /\ UNCHANGED <<pf_args, endmembers, bin_interactions, degree_polys>>
    /\ UNCHANGED <<canonVars, dataVars, aicVars, ffeVars, sgVars, ctxVars>>

\* lines 594-606
PfEnumerate ==
    /\ ppc = "endmembers"
    /\ pf_index > Len(endmembers)
    /\ bin_interactions' = BinInteractions(endmembers, pf_args.symmetry)
    /\ pf_index' = 1
    /\ ppc' = "interactions"
    /\ UNCHANGED <<pf_args, endmembers, em_dict, pf_fitted, pf_parameters, degree_polys,
                   dbf, caller_dbf>>
    /\ UNCHANGED <<canonVars, dataVars, aicVars, ffeVars, sgVars, ctxVars>>

\* one pass of the loop of lines 607-640
PfInteraction ==
    /\ ppc = "interactions"
    /\ pf_index <= Len(bin_interactions)
    /\ LET interaction == bin_interactions[pf_index]
           ixx == ConfigToTuple(interaction)
       IN \E fitted \in FitFormationEnergy(datasets, pf_args.comps, FfePhase, ixx,
                                           pf_args.symmetry,
                                           [none |-> FALSE, keys |-> DOMAIN em_dict]) :
             LET scanned == DegreeScan(ScanOrder, fitted.parameters, ZeroPolys)
                 symmetric_interactions == GenerateSymmetricGroup(interaction, pf_args.symmetry)
             IN IF fitted.raised
                THEN /\ ppc' = "raised"
                     /\ UNCHANGED <<dbf, caller_dbf, pf_index, pf_fitted, pf_parameters,
                                    degree_polys>>
                ELSE /\ pf_fitted' = fitted.parameters
                     /\ pf_parameters' = scanned.left
                     /\ degree_polys' = scanned.polys
                     /\ IF symmetric_interactions.raised
                        THEN /\ ppc' = "raised"
                             /\ UNCHANGED <<dbf, caller_dbf, pf_index>>
                        ELSE /\ dbf' = AddDegrees(dbf, FfePhase,
                                                  symmetric_interactions.group,
                                                  scanned.polys, 0)
                             /\ caller_dbf' = CallerAfterPhaseFit(caller_dbf, dbf')
                             /\ pf_index' = pf_index + 1
                             /\ UNCHANGED ppc
    /\ UNCHANGED <<pf_args, endmembers, em_dict, bin_interactions>>
    /\ UNCHANGED <<canonVars, dataVars, aicVars, ffeVars, sgVars, ctxVars>>

\* line 641: the loops are through and phase_fit returns
PfReturn ==
    /\ ppc = "interactions"
    /\ pf_index > Len(bin_interactions)
    /\ ppc' = "done"
    /\ UNCHANGED <<pf_args, endmembers, em_dict, bin_interactions, pf_index, pf_fitted,
                   pf_parameters, degree_polys, dbf, caller_dbf>>
    /\ UNCHANGED <<canonVars, dataVars, aicVars, ffeVars, sgVars, ctxVars>>

PhaseNext == PfBegin \/ PfEndmember \/ PfEnumerate \/ PfInteraction \/ PfReturn

SpecPhase == PhaseInit /\ [][PhaseNext]_vars

\* the 'G' parameters of degree 0 the database holds for an endmember
GParameters(e) ==
    {i \in 1..Len(dbf) :
        /\ dbf[i].kind = "G"
        /\ dbf[i].phase_name = FfePhase
        /\ dbf[i].degree = 0
        /\ dbf[i].configuration = ToTuples(e)}

\* C3: once phase_fit has completed, every endmember of the cartesian product
\* of the sublattice species lists has exactly one 'G' parameter of degree 0
\* in the database and an entry in the endmember-energy map, and two
\* endmembers with the same canonical form carry the identical expression.
C3_EveryEndmemberOnce ==
    ppc = "done" =>
        /\ \A e \in Product(pf_args.subl_model) :
              /\ Cardinality(GParameters(e)) = 1
              /\ e \in DOMAIN em_dict
        /\ \A e1, e2 \in Product(pf_args.subl_model) :
              canonicalize(e1, pf_args.symmetry) = canonicalize(e2, pf_args.symmetry)
                 => /\ \A i \in GParameters(e1), j \in GParameters(e2) :
                          dbf[i].expr = dbf[j].expr
                    /\ (e1 \in DOMAIN em_dict /\ e2 \in DOMAIN em_dict)
                          => em_dict[e1] = em_dict[e2]

\* C14: phase_fit called without a symmetry (None) does not fail; it runs to
\* completion, every endmember of the cartesian product is its own canonical
\* form and has one 'G' parameter at the end.
C14_AbsentSymmetryCompletes ==
    pf_args.symmetry.none =>
        /\ ppc # "raised"
        /\ ppc \in {"endmembers", "interactions", "done"}
              => Range(endmembers) = Product(pf_args.subl_model)
        /\ ppc = "done"
              => \A e \in Product(pf_args.subl_model) : Cardinality(GParameters(e)) = 1

\* the arrangements of an interaction that the symmetry makes equivalent
EquivalentConfigurations(conf, symmetry) ==
    {ConfigToTuple(c) : c \in {d \in [1..Len(conf) -> Range(conf)] :
                                  canonicalize(d, symmetry) = canonicalize(conf, symmetry)}}

\* the features of the fitted map are split by degree: each is a term of the
\* polynomial of its own degree, with its coefficient, and of no other, and
\* none is left in parameters
DegreesPartitioned ==
    /\ \A key \in DOMAIN pf_fitted :
          /\ \A d \in 0..(DegreeCount - 1) : key \in DOMAIN degree_polys[d] <=> d = key.rk
          /\ degree_polys[key.rk][key] = pf_fitted[key]
    /\ DOMAIN pf_parameters = {}

\* C16: in a pass of the interaction loop every fitted feature YS*Z^d*f(T)
\* goes to the polynomial of degree d and to no other, none is left over, and
\* an 'L' parameter of degree d is written exactly when that polynomial is
\* not zero, once for each configuration equivalent to the interaction under
\* the symmetry, all with the polynomial as their expression.
C16_DegreePartition ==
    [][(ppc = "interactions" /\ pf_index' = pf_index + 1) =>
          LET interaction == bin_interactions[pf_index]
              new == SubSeq(dbf', Len(dbf) + 1, Len(dbf'))
              equivalent == EquivalentConfigurations(interaction, pf_args.symmetry)
          IN /\ DegreesPartitioned'
             /\ \A d \in 0..(DegreeCount - 1) : \A c \in equivalent :
                   Cardinality({i \in 1..Len(new) :
                                   /\ new[i].kind = "L"
                                   /\ new[i].degree = d
                                   /\ new[i].configuration = ToTuples(c)})
                     = IF NonzeroPoly(degree_polys'[d]) THEN 1 ELSE 0
             /\ \A i \in 1..Len(new) :
                   /\ new[i].kind = "L"
                   /\ new[i].phase_name = FfePhase
                   /\ new[i].expr = DegreePoly(degree_polys', new[i].degree)
                   /\ \E c \in equivalent : new[i].configuration = ToTuples(c)
      ]_vars

\* the number of positions of a configuration that hold a pair
PairPositions(conf) == Cardinality({p \in 1..Len(conf) : IsPair(conf[p])})

\* C19: every interaction configuration that the interaction loop has fitted,
\* and every configuration an 'L' parameter is written for, has exactly one
\* position occupied by a pair and scalar species at the others.
C19_OnePairPerInteraction ==
    /\ \A i \in 1..Len(bin_interactions) :
          i < pf_index => PairPositions(bin_interactions[i]) = 1
    /\ \A i \in 1..Len(dbf) :
          dbf[i].kind = "L" =>
              Cardinality({p \in 1..Len(dbf[i].configuration) :
                              Len(dbf[i].configuration[p]) = 2}) = 1

\* the interactions of two endmembers of the cartesian product that differ
\* in exactly one sublattice, in canonical form
SingleSublatticeInteractions ==
    {canonicalize(Interaction(e1e2[1], e1e2[2]), pf_args.symmetry) :
        e1e2 \in {x \in Product(pf_args.subl_model) \X Product(pf_args.subl_model) :
                    Cardinality({p \in 1..Len(x[1]) : x[1][p] # x[2][p]}) = 1}}

\* C20: pairing only the canonical endmembers loses no interaction: the
\* canonical form of the interaction of any two endmembers of the cartesian
\* product that differ in exactly one sublattice is among the interactions
\* the loop is to fit.
C20_NoInteractionLost ==
    ppc \in {"interactions", "done"} =>
        SingleSublatticeInteractions \subseteq Range(bin_interactions)

-----------------------------------------------------------------------------
(* Scenario "group": _generate_symmetric_group is called on a configuration *)
(* and a symmetry, then on a member of what it returned.                    *)

\* occupants: scalar species and a pair, as a tuple and as a list
GroupOccupants == {Str(sA), Str(sB), Tuple(sA, sB), List(sA, sB)}

GroupConfigurations ==
    UNION {SeqsOfLen(GroupOccupants, n) : n \in 2..MaxSublattices}

\* symmetries over n positions given as a list of index-sets: [], one
\* index-set, two disjoint index-sets of the same length
GroupSymmetries(n) ==
    {S \in Symmetries(n) :
        /\ ~S.none
        /\ \A i, j \in 1..Len(S.sets) : Len(S.sets[i]) = Len(S.sets[j])}

GroupInit ==
    /\ sg_configuration \in GroupConfigurations
    /\ sg_symmetry \in GroupSymmetries(Len(sg_configuration))
    /\ sg_group = NoGroup
    /\ sg_member = <<>>
    /\ sg_member_group = NoGroup
    /\ gpc = "start"
    /\ dbf = <<>>
    /\ DbIdle
    /\ CanonIdle
    /\ DataIdle
    /\ AicIdle
    /\ FfeIdle
    /\ PfIdle

\* _generate_symmetric_group(sg_configuration, sg_symmetry)
SgGenerate ==
    /\ gpc = "start"
    /\ sg_group' = GenerateSymmetricGroup(sg_configuration, sg_symmetry)
    /\ gpc' = IF sg_group'.raised THEN "raised" ELSE "generated"
    /\ UNCHANGED <<sg_configuration, sg_symmetry, sg_member, sg_member_group>>
    /\ UNCHANGED <<canonVars, dataVars, aicVars, ffeVars, pfVars, ctxVars, dbf, caller_dbf>>

\* _generate_symmetric_group(member, sg_symmetry) for a member of the result
SgRegenerate ==
    /\ gpc = "generated"
    /\ \E m \in Range(sg_group.group) :
          /\ sg_member' = m
          /\ sg_member_group' = GenerateSymmetricGroup(m, sg_symmetry)
    /\ gpc' = IF sg_member_group'.raised THEN "raised again" ELSE "regenerated"
    /\ UNCHANGED <<sg_configuration, sg_symmetry, sg_group>>
    /\ UNCHANGED <<canonVars, dataVars, aicVars, ffeVars, pfVars, ctxVars, dbf, caller_dbf>>

GroupNext == SgGenerate \/ SgRegenerate

SpecGroup == GroupInit /\ [][GroupNext]_vars

\* C12: the generator applied to a member of the set it returned returns a
\* subset of that set.
C12_GroupClosed ==
    gpc \in {"regenerated", "raised again"} =>
        /\ ~sg_member_group.raised
        /\ Range(sg_member_group.group) \subseteq Range(sg_group.group)

\* a set of three or more configurations, and the generator applied to a
\* member other than the configuration it started from
C12_Witness ==
    /\ gpc = "regenerated"
    /\ Len(sg_group.group) >= 3
    /\ sg_member # ConfigToTuple(sg_configuration)
    /\ Range(sg_member_group.group) = Range(sg_group.group)

\* C13: the generator terminates with a set that contains the configuration
\* it was given, and with exactly that configuration when the symmetry is the
\* empty list.
C13_TerminatesWithInput ==
    gpc # "start" =>
        /\ gpc # "raised"
        /\ ConfigToTuple(sg_configuration) \in Range(sg_group.group)
        /\ sg_symmetry.sets = <<>> => sg_group.group = <<ConfigToTuple(sg_configuration)>>

-----------------------------------------------------------------------------
(* setup_context (src/espei/error_functions/context.py) and the scenario    *)
(* "database": a caller hands a database either to phase_fit or to          *)
(* setup_context.  The symbol table of a database maps a name to a          *)
(* Piecewise or to a plain expression.                                      *)

Piecewise(expr) == [t |-> "Piecewise", args |-> <<[expr |-> expr, cond |-> "True"]>>]
Plain(expr)     == [t |-> "Expr", args |-> <<expr>>]

\* symbol names, in ascending order
CtxNames == <<"GHSERAL", "VV0000", "VV0001">>

\* sorted(names)
SortedNames(S) ==
    LET idx == Ascending({i \in 1..Len(CtxNames) : CtxNames[i] \in S})
    IN [k \in 1..Len(idx) |-> CtxNames[idx[k]]]

\* database_symbols_to_fit(dbf): the symbols named VV and a number
DatabaseSymbolsToFit(symbols) ==
    SortedNames(DOMAIN symbols \cap {"VV0000", "VV0001"})

\* a setup_context that works on the database it is handed
CallerSharedWithContext(caller, working) == [caller EXCEPT !.symbols = working]

\* the caller's database while setup_context changes its own: line 38 has
\* rebound dbf to a deep copy
CallerAfterSetupContext(caller, working) == caller

\* line 54: dbf.symbols[x].args[0].expr
FirstBranch(value) == Plain(value.args[1].expr)

CtxDatabases ==
    {[parameters |-> <<>>, symbols |-> f] :
        f \in UNION {[S -> {Piecewise("VV"), Plain("VV")}] : S \in SUBSET Range(CtxNames)}}

CtxArguments ==
    {[none |-> TRUE, names |-> {}]}
    \cup {[none |-> FALSE, names |-> S] : S \in SUBSET Range(CtxNames)}

CtxInit ==
    /\ caller_dbf \in CtxDatabases
    /\ ctx \in {[NoContext EXCEPT !.arg = a] : a \in CtxArguments}
    /\ xpc = "start"
    /\ dbf = <<>>
    /\ CanonIdle
    /\ DataIdle
    /\ AicIdle
    /\ FfeIdle
    /\ PfIdle
    /\ SgIdle

\* lines 38-49: the deep copy, the symbols to fit and the check that there
\* are some
CtxBegin ==
    /\ xpc = "start"
    /\ LET copied == caller_dbf.symbols
           to_fit == IF ctx.arg.none THEN DatabaseSymbolsToFit(copied)
                     ELSE SortedNames(ctx.arg.names)
       IN /\ ctx' = [ctx EXCEPT !.symbols = copied, !.symbols_to_fit = to_fit,
                                !.todo = to_fit]
          /\ xpc' = IF Len(to_fit) = 0 THEN "raised" ELSE "replacing"
          /\ caller_dbf' = CallerAfterSetupContext(caller_dbf, copied)
    /\ UNCHANGED <<canonVars, dataVars, aicVars, ffeVars, pfVars, sgVars, dbf>>

\* one pass of the loop of lines 51-54
CtxReplace ==
    /\ xpc = "replacing"
    /\ ctx.todo # <<>>
    /\ LET x == Head(ctx.todo)
       IN IF x \notin DOMAIN ctx.symbols
          THEN /\ xpc' = "raised"
               /\ UNCHANGED <<ctx, caller_dbf>>
          ELSE LET replaced ==
                       IF ctx.symbols[x].t = "Piecewise"
                       THEN [ctx.symbols EXCEPT ![x] = FirstBranch(ctx.symbols[x])]
                       ELSE ctx.symbols
               IN /\ ctx' = [ctx EXCEPT !.symbols = replaced, !.todo = Tail(ctx.todo)]
                  /\ caller_dbf' = CallerAfterSetupContext(caller_dbf, replaced)
                  /\ UNCHANGED xpc
    /\ UNCHANGED <<canonVars, dataVars, aicVars, ffeVars, pfVars, sgVars, dbf>>

\* lines 56-90: the models and the context are built on the copy
CtxReturn ==
    /\ xpc = "replacing"
    /\ ctx.todo = <<>>
    /\ xpc' = "returned"
    /\ UNCHANGED <<ctx, caller_dbf>>
    /\ UNCHANGED <<canonVars, dataVars, aicVars, ffeVars, pfVars, sgVars, dbf>>

CtxNext == CtxBegin \/ CtxReplace \/ CtxReturn

DbInit == PhaseInit \/ CtxInit

DbNext == PhaseNext \/ CtxNext

SpecDb == DbInit /\ [][DbNext]_vars

\* C15 as stated: phase_fit and setup_context apply their changes to a deep
\* copy, so no step of either changes the caller's database.
C15_CallerDatabaseUnchanged ==
    [][caller_dbf' = caller_dbf]_vars

\* C15 as amended: setup_context replaces Piecewise symbols in a deep copy,
\* so none of its steps changes the caller's database and at its return the
\* symbols to fit are plain in the copy; phase_fit takes no copy, the
\* parameters it adds are added to the caller's database, whose symbols it
\* leaves alone.
C15_OnlySetupContextCopies ==
    [][/\ xpc # "idle" =>
             /\ caller_dbf' = caller_dbf
             /\ xpc' = "returned" =>
                   \A x \in Range(ctx'.symbols_to_fit) :
                       /\ ctx'.symbols[x].t # "Piecewise"
                       /\ caller_dbf.symbols[x].t = "Piecewise"
                            => ctx'.symbols[x] = Plain(caller_dbf.symbols[x].args[1].expr)
       /\ ppc # "idle" =>
             /\ caller_dbf'.parameters = dbf'
             /\ caller_dbf'.symbols = caller_dbf.symbols
      ]_vars

\* setup_context has returned, a Piecewise symbol is replaced in its copy and
\* is still a Piecewise in the caller's database
C15_Witness ==
    /\ xpc = "returned"
    /\ \E x \in Range(ctx.symbols_to_fit) :
          /\ caller_dbf.symbols[x].t = "Piecewise"
          /\ ctx.symbols[x].t = "Expr"

=============================================================================
